---- MODULE Spec2Model ----
(***************************************************************************)
(* Envelope encryption core of the secure-transactions repository:         *)
(* encrypt (apps/api/src/crypto/encrypt.ts), decrypt and                   *)
(* constantTimeTagCompare (decrypt.ts), validateRecord (validate.ts) and   *)
(* the error classes (errors.ts).                                          *)
(*                                                                         *)
(* Buffers are sequences of bytes (0..255); strings whose characters       *)
(* matter (hex fields, keys, JSON text) are sequences of code points.      *)
(* Node's AES-256-GCM is abstracted to a keyed     *)
(* additive stream cipher with a keyed position-weighted checksum as tag:  *)
(* within the perturbations explored here the checksum is collision free,  *)
(* i.e. it stands for an ideal MAC.  The API behaviour around it (key, IV  *)
(* and tag length checks, the error messages, the order of the checks) is  *)
(* that of Node 20, which README.md names as the runtime.                  *)
(***************************************************************************)
EXTENDS Integers, Sequences, FiniteSets, TLC

VARIABLES
    \* the crypto core, one record at a time
    rec,     \* the TxSecureRecord at rest (what storage would hand to decrypt)
    origin,  \* how rec came to be: the encrypt call (or hand-built record) behind it
    edit,    \* the modification applied to rec since it was produced
    out,     \* outcome of the last encrypt / decrypt call
    \* the HTTP routes (routes/tx.ts) over the record store (store.ts)
    fallbackStore,  \* the stored records, by id
    env,            \* process.env.MASTER_KEY_HEX (<<>> when not set)
    request,        \* the request being served, or the last one served
    \* the serverless entry point (api/index.ts)
    appPromise,     \* the module-level appPromise (0 for null, else an app)
    invocations,    \* each handler invocation: where it stands, the app it got
    initStoreCalls, \* how many times initStore has been called
    buildAppCalls,  \* how many times buildApp has been called
    \* encrypt and decrypt calls in progress at the same time
    calls,          \* each call: its arguments, its position, its result
    frames,         \* the local variables of each call's activation
    \* constantTimeTagCompare
    compare         \* a call of constantTimeTagCompare and its outcome

coreVars == <<rec, origin, edit, out>>
routeVars == <<fallbackStore, env, request>>
handlerVars == <<appPromise, invocations, initStoreCalls, buildAppCalls>>
callVars == <<calls, frames>>
compareVars == <<compare>>

vars == <<coreVars, routeVars, handlerVars, callVars, compareVars>>

-----------------------------------------------------------------------------
(* Program constants *)

KEY_BYTES == 32
NONCE_BYTES == 12
TAG_BYTES == 16

\* message of the error Node raises when GCM tag verification fails
AUTH_FAIL_MESSAGE == "Unsupported state or unable to authenticate data"

ALG == "AES-256-GCM"

(* Bounds of the model *)

\* number of distinct states of the random source (crypto.randomBytes / randomUUID)
NumSeeds == 2

\* longest tag argument, in characters, given to constantTimeTagCompare
MaxTagChars == 4

\* number of handler invocations running in one process
NumInvocations == 3

\* number of encrypt and decrypt calls in progress at the same time
NumCalls == 2

-----------------------------------------------------------------------------
(* Generic helpers *)

Min(S) == CHOOSE x \in S : \A y \in S : x <= y

RECURSIVE SumUpTo(_, _)
SumUpTo(s, n) == IF n = 0 THEN 0 ELSE s[n] + SumUpTo(s, n - 1)

RECURSIVE WSumUpTo(_, _)
WSumUpTo(s, n) == IF n = 0 THEN 0 ELSE n * s[n] + WSumUpTo(s, n - 1)

ByteSum(s) == SumUpTo(s, Len(s))
ByteWSum(s) == WSumUpTo(s, Len(s))

RECURSIVE Flatten(_)
Flatten(ss) == IF ss = <<>> THEN <<>> ELSE Head(ss) \o Flatten(Tail(ss))

-----------------------------------------------------------------------------
(* Hex encoding: Buffer.from(str, "hex") and buf.toString("hex") *)

\* characters are code points: "0".."9" are 48..57, "a".."f" 97..102,
\* "A".."F" 65..70
HexDigits == <<48, 49, 50, 51, 52, 53, 54, 55, 56, 57, 97, 98, 99, 100, 101, 102>>

HexVal(c) ==
    IF c >= 48 /\ c <= 57 THEN c - 48
    ELSE IF c >= 97 /\ c <= 102 THEN c - 87
    ELSE IF c >= 65 /\ c <= 70 THEN c - 55
    ELSE -1

\* Node decodes pairs of hex digits and stops, silently, at the first pair that
\* is not two hex digits; a trailing odd character is dropped.
BufferFromHex(str) ==
    LET n   == Len(str) \div 2
        bad == { i \in 1..n : HexVal(str[2*i - 1]) < 0 \/ HexVal(str[2*i]) < 0 }
        m   == IF bad = {} THEN n ELSE Min(bad) - 1
    IN  [ i \in 1..m |-> 16 * HexVal(str[2*i - 1]) + HexVal(str[2*i]) ]

\* lowercase, two digits per byte
ToHexString(buf) ==
    [ i \in 1..(2 * Len(buf)) |->
        IF i % 2 = 1 THEN HexDigits[(buf[(i + 1) \div 2] \div 16) + 1]
                     ELSE HexDigits[(buf[i \div 2] % 16) + 1] ]

\* buf.fill(0)
ZeroFillSkipped(buf) == buf
ZeroFill(buf) == [ i \in 1..Len(buf) |-> 0 ]

IsZero(buf) == \A i \in 1..Len(buf) : buf[i] = 0

-----------------------------------------------------------------------------
(* AES-256-GCM as Node's crypto module exposes it *)

ValidGcmTagLengths == {4, 8, 12, 13, 14, 15, 16}

\* createCipheriv / createDecipheriv: "" when the cipher object is created
CipherInitError(key, iv) ==
    IF Len(key) # KEY_BYTES THEN "Invalid key length"
    ELSE IF Len(iv) = 0 THEN "Invalid initialization vector"
    ELSE ""

GcmUpdateEncryptIdentity(key, iv, plaintext) == plaintext
GcmUpdateEncrypt(key, iv, plaintext) ==
    LET k == ByteWSum(key) + 3 * ByteWSum(iv) + 5 * ByteSum(key) + 1
    IN  [ i \in 1..Len(plaintext) |-> (plaintext[i] + k + 17 * i) % 256 ]

GcmUpdateDecrypt(key, iv, ciphertext) ==
    LET k == ByteWSum(key) + 3 * ByteWSum(iv) + 5 * ByteSum(key) + 1
    IN  [ i \in 1..Len(ciphertext) |->
            (ciphertext[i] + 256 - ((k + 17 * i) % 256)) % 256 ]

\* the full 16-byte authentication tag over key, IV and ciphertext
GcmTagKeyless(key, iv, ciphertext) ==
    LET a == 3 * ByteWSum(iv) + 5 * ByteWSum(ciphertext)
             + 7 * Len(ciphertext) + 11 * Len(iv)
        b == 3 * ByteSum(iv) + 5 * ByteSum(ciphertext)
    IN  [ j \in 1..TAG_BYTES |-> (a + j * b + j * j) % 256 ]
GcmTag(key, iv, ciphertext) ==
    LET a == ByteWSum(key) + 3 * ByteWSum(iv) + 5 * ByteWSum(ciphertext)
             + 7 * Len(ciphertext) + 11 * Len(iv)
        b == ByteSum(key) + 3 * ByteSum(iv) + 5 * ByteSum(ciphertext)
    IN  [ j \in 1..TAG_BYTES |-> (a + j * b + j * j) % 256 ]

\* setAuthTag: without an authTagLength option every valid GCM tag length is taken
SetAuthTagError(tag) ==
    IF Len(tag) \in ValidGcmTagLengths THEN ""
    ELSE "Invalid authentication tag length"

\* decipher.final(): the tag given is compared with as many bytes of the
\* computed tag as it has
GcmFinalAcceptAll(key, iv, ciphertext, tag) == TRUE
GcmFinalVerifies(key, iv, ciphertext, tag) ==
    tag = SubSeq(GcmTag(key, iv, ciphertext), 1, Len(tag))

GcmDecryptUnchecked(key, iv, ciphertext, tag) ==
    [error |-> "", plaintext |-> GcmUpdateDecrypt(key, iv, ciphertext)]
\* createDecipheriv, setAuthTag, update and final in the order decrypt calls
\* them: error is "" and plaintext the output, or error is the message thrown
GcmDecrypt(key, iv, ciphertext, tag) ==
    LET initError == CipherInitError(key, iv)
        tagError  == SetAuthTagError(tag)
    IN  IF initError # "" THEN [error |-> initError, plaintext |-> <<>>]
        ELSE IF tagError # "" THEN [error |-> tagError, plaintext |-> <<>>]
        ELSE IF ~GcmFinalVerifies(key, iv, ciphertext, tag)
             THEN [error |-> AUTH_FAIL_MESSAGE, plaintext |-> <<>>]
        ELSE [error |-> "", plaintext |-> GcmUpdateDecrypt(key, iv, ciphertext)]

\* createCipheriv, update, final, getAuthTag
GcmEncrypt(key, iv, plaintext) ==
    LET ciphertext == GcmUpdateEncrypt(key, iv, plaintext)
    IN  [ciphertext |-> ciphertext, tag |-> GcmTag(key, iv, ciphertext)]

\* crypto.randomBytes(n), the call-th draw of a random source in state seed
RandomBytes(seed, call, n) ==
    [ i \in 1..n |-> (37 * seed + 59 * call + 11 * i) % 256 ]

\* crypto.randomUUID()
RandomUUID(seed) == ToHexString(RandomBytes(seed, 4, 16))

-----------------------------------------------------------------------------
(* Payloads, JSON and UTF-8 *)

\* A payload is a JavaScript object: a sequence of entries [k, v], the key a
\* string (sequence of code points), the value number, string, NaN, null or BigInt.
Num(n)    == [t |-> "number", n |-> n, s |-> <<>>]
Str(s)    == [t |-> "string", n |-> 0, s |-> s]
NaNValue  == [t |-> "NaN",    n |-> 0, s |-> <<>>]
NullValue == [t |-> "null",   n |-> 0, s |-> <<>>]
BigIntValue(n) == [t |-> "bigint", n |-> n, s |-> <<>>]
\* the number k/2 for an odd k: a number that is no integer
Half(k) == [t |-> "half", n |-> k, s |-> <<>>]
UndefinedValue == [t |-> "undefined", n |-> 0, s |-> <<>>]

\* typeof v
TypeOf(v) ==
    CASE v.t \in {"number", "half", "NaN"} -> "number"
      [] v.t = "null" -> "object"
      [] OTHER -> v.t

\* v < 1 for a number v (every comparison with NaN is false)
LessThanOne(v) ==
    CASE v.t = "number" -> v.n < 1
      [] v.t = "half"   -> v.n < 2
      [] OTHER          -> FALSE

RECURSIVE DecimalDigits(_)
DecimalDigits(n) ==
    IF n < 10 THEN <<48 + n>> ELSE DecimalDigits(n \div 10) \o <<48 + (n % 10)>>

Quote(s) == <<34>> \o s \o <<34>>

SerializeValue(v) ==
    CASE v.t = "number" -> DecimalDigits(v.n)
      [] v.t = "string" -> Quote(v.s)
      [] OTHER          -> <<110, 117, 108, 108>>   \* NaN and null give null

RECURSIVE SerializeEntries(_)
SerializeEntries(es) ==
    IF es = <<>> THEN <<>>
    ELSE Quote(Head(es).k) \o <<58>> \o SerializeValue(Head(es).v)
         \o (IF Len(es) > 1 THEN <<44>> ELSE <<>>) \o SerializeEntries(Tail(es))

\* JSON.stringify(payload): a TypeError for a BigInt, else the JSON text
JSONstringify(payload) ==
    IF \E i \in 1..Len(payload) : payload[i].v.t = "bigint"
    THEN [error |-> "TypeError", text |-> <<>>]
    ELSE [error |-> "", text |-> <<123>> \o SerializeEntries(payload) \o <<125>>]

\* Buffer.from(text, "utf-8"), code points below U+0800
Utf8EncodeAsLatin1(text) == text
Utf8Encode(text) ==
    Flatten([ i \in 1..Len(text) |->
        IF text[i] < 128 THEN <<text[i]>>
        ELSE <<192 + (text[i] \div 64), 128 + (text[i] % 64)>> ])

\* buf.toString("utf-8"): malformed input decodes to U+FFFD
RECURSIVE Utf8Decode(_)
Utf8Decode(bytes) ==
    IF bytes = <<>> THEN <<>>
    ELSE IF bytes[1] < 128 THEN <<bytes[1]>> \o Utf8Decode(Tail(bytes))
    ELSE IF /\ bytes[1] >= 194 /\ bytes[1] < 224 /\ Len(bytes) >= 2
            /\ bytes[2] >= 128 /\ bytes[2] < 192
         THEN <<(bytes[1] - 192) * 64 + (bytes[2] - 128)>>
              \o Utf8Decode(Tail(Tail(bytes)))
    ELSE <<65533>> \o Utf8Decode(Tail(bytes))

\* {"n":7}, {"s":"é"}, {"n":NaN}, {"n":10n} and what {"n":NaN} is parsed back as
PayloadNumber == << [k |-> <<110>>, v |-> Num(7)] >>
PayloadText   == << [k |-> <<115>>, v |-> Str(<<233>>)] >>
PayloadNaN    == << [k |-> <<110>>, v |-> NaNValue] >>
PayloadBigInt == << [k |-> <<110>>, v |-> BigIntValue(10)] >>
PayloadNull   == << [k |-> <<110>>, v |-> NullValue] >>
PayloadDigit(d) == << [k |-> <<110>>, v |-> Num(d)] >>

\* the values JSON text can denote, within the model
PayloadEmpty == <<>>
JsonValues == {PayloadEmpty, PayloadText, PayloadNull} \cup { PayloadDigit(d) : d \in 0..9 }

\* a payload that survives JSON.parse(JSON.stringify(p)) unchanged
IsJsonCompatible(payload) == payload \in JsonValues

\* JSON.parse(text): the value the text denotes, or a SyntaxError, whose
\* message quotes the text it could not parse (a short text in full)
JSONparse(text) ==
    IF \E v \in JsonValues : JSONstringify(v).text = text
    THEN [error |-> "", quoted |-> <<>>,
          value |-> CHOOSE v \in JsonValues : JSONstringify(v).text = text]
    ELSE [error |-> "Unexpected token", quoted |-> text, value |-> <<>>]

-----------------------------------------------------------------------------
(* TxSecureRecord and the two operations *)

HexFields == {"payload_nonce", "payload_ct", "payload_tag",
              "dek_wrap_nonce", "dek_wrapped", "dek_wrap_tag"}

NoRecord ==
    [id |-> <<>>, partyId |-> "", createdAt |-> "",
     payload_nonce |-> <<>>, payload_ct |-> <<>>, payload_tag |-> <<>>,
     dek_wrap_nonce |-> <<>>, dek_wrapped |-> <<>>, dek_wrap_tag |-> <<>>,
     alg |-> "", mk_version |-> UndefinedValue]

\* new Date().toISOString()
Now == "2024-01-01T00:00:00.000Z"

\* message.includes(AUTH_FAIL_MESSAGE): the messages of the model are whole
\* library messages, none of which contains another
MessageIncludes(message, needle) == message = needle

\* the catch blocks of decrypt: which error class a caught message becomes
ClassifyAlwaysDecryptionError(message) == "DecryptionError"
ClassifyAlwaysTampered(message) == "TamperedDataError"
Classify(message) ==
    IF MessageIncludes(message, AUTH_FAIL_MESSAGE)
    THEN "TamperedDataError"
    ELSE "DecryptionError"

\* the default parameter mkVersion = 1: it applies when the argument is undefined
MkVersionAlwaysDefault(mkVersion) == Num(1)
MkVersionParameter(mkVersion) ==
    IF mkVersion = UndefinedValue THEN Num(1) ELSE mkVersion

\* encrypt(masterKey, partyId, payload, mkVersion), drawing its random bytes
\* from a source in state seed.  The result describes how the call ended:
\*   status    "ok" or the class of the error thrown
\*   record    the record returned (hasRecord)
\*   mkBuffer  the decoded master key buffer as the call leaves it
\*   dek       the DEK buffer as the call leaves it (dekCreated)
\*   draws     how many times the random source was read
\*   cipherUses  the authenticated encryptions performed, in order: the key
\*               given to createCipheriv and the plaintext given to update
encrypt(masterKey, partyId, payload, mkVersion, seed) ==
    LET mkBuffer == BufferFromHex(masterKey)
        dek      == RandomBytes(seed, 1, KEY_BYTES)
        json     == JSONstringify(payload)
        payloadPlaintext == Utf8Encode(json.text)
        payloadNonce == RandomBytes(seed, 2, NONCE_BYTES)
        sealedPayload == GcmEncrypt(dek, payloadNonce, payloadPlaintext)
        dekWrapNonce == RandomBytes(seed, 3, NONCE_BYTES)
        sealedDek == GcmEncrypt(mkBuffer, dekWrapNonce, dek)
        record ==
            [id |-> RandomUUID(seed), partyId |-> partyId, createdAt |-> Now,
             payload_nonce |-> ToHexString(payloadNonce),
             payload_ct |-> ToHexString(sealedPayload.ciphertext),
             payload_tag |-> ToHexString(sealedPayload.tag),
             dek_wrap_nonce |-> ToHexString(dekWrapNonce),
             dek_wrapped |-> ToHexString(sealedDek.ciphertext),
             dek_wrap_tag |-> ToHexString(sealedDek.tag),
             alg |-> ALG, mk_version |-> MkVersionParameter(mkVersion)]
    IN  IF Len(mkBuffer) # KEY_BYTES
        THEN [status |-> "EncryptionError",
              message |-> "Master key must be 32 bytes (64 hex chars)",
              hasRecord |-> FALSE, record |-> NoRecord,
              mkBuffer |-> mkBuffer, dekCreated |-> FALSE, dek |-> <<>>,
              draws |-> 0, cipherUses |-> <<>>]
        ELSE IF json.error # ""
        THEN \* JSON.stringify throws inside try/finally: there is no catch
             [status |-> json.error,
              message |-> "Do not know how to serialize a BigInt",
              hasRecord |-> FALSE, record |-> NoRecord,
              mkBuffer |-> mkBuffer, dekCreated |-> TRUE, dek |-> ZeroFill(dek),
              draws |-> 1, cipherUses |-> <<>>]
        ELSE [status |-> "ok", message |-> "",
              hasRecord |-> TRUE, record |-> record,
              mkBuffer |-> mkBuffer, dekCreated |-> TRUE, dek |-> ZeroFill(dek),
              draws |-> 4,
              cipherUses |-> << [key |-> dek, plaintext |-> payloadPlaintext],
                                [key |-> mkBuffer, plaintext |-> dek] >>]

\* the message of the error a catch block of decrypt throws: a fixed text
\* for a tag failure, else a prefix followed by the message caught.
\*   libraryText  the library's message carried inside it ("" if none)
\*   quoted       text of the decrypted payload that message quotes
ThrownMessage(message, quoted) ==
    IF MessageIncludes(message, AUTH_FAIL_MESSAGE)
    THEN [libraryText |-> "", quoted |-> <<>>]
    ELSE [libraryText |-> message, quoted |-> quoted]

\* decrypt(masterKey, record).  The result describes how the call ended:
\*   status     "ok" or the class of the error thrown
\*   thrown     what the message of the error thrown carries (ThrownMessage)
\*   decipherUses  the keys given to createDecipheriv, in order
\*   value      the payload returned (returned)
\*   mkBuffer   the decoded master key buffer as the call leaves it
\*   dek        the dek buffer as the call leaves it (dekAssigned)
\*   stage      the last stage entered: "key", "unwrap", "payload" or "parse"
decrypt(masterKey, record) ==
    LET mkBuffer     == BufferFromHex(masterKey)
        dekWrapNonce == BufferFromHex(record.dek_wrap_nonce)
        dekWrapped   == BufferFromHex(record.dek_wrapped)
        dekWrapTag   == BufferFromHex(record.dek_wrap_tag)
        payloadNonce == BufferFromHex(record.payload_nonce)
        payloadCt    == BufferFromHex(record.payload_ct)
        payloadTag   == BufferFromHex(record.payload_tag)
        unwrap       == GcmDecrypt(mkBuffer, dekWrapNonce, dekWrapped, dekWrapTag)
        dek          == unwrap.plaintext
        opened       == GcmDecrypt(dek, payloadNonce, payloadCt, payloadTag)
        parsed       == JSONparse(Utf8Decode(opened.plaintext))
    IN  IF Len(mkBuffer) # KEY_BYTES
        THEN [status |-> "DecryptionError",
              message |-> "Master key must be 32 bytes (64 hex chars)",
              thrown |-> ThrownMessage("", <<>>),
              returned |-> FALSE, value |-> <<>>, mkBuffer |-> mkBuffer,
              dekAssigned |-> FALSE, dek |-> <<>>, stage |-> "key",
              decipherUses |-> <<>>]
        ELSE IF unwrap.error # ""
        THEN [status |-> Classify(unwrap.error), message |-> unwrap.error,
              thrown |-> ThrownMessage(unwrap.error, <<>>),
              returned |-> FALSE, value |-> <<>>, mkBuffer |-> mkBuffer,
              dekAssigned |-> FALSE, dek |-> <<>>, stage |-> "unwrap",
              decipherUses |-> <<mkBuffer>>]
        ELSE IF opened.error # ""
        THEN [status |-> Classify(opened.error), message |-> opened.error,
              thrown |-> ThrownMessage(opened.error, <<>>),
              returned |-> FALSE, value |-> <<>>, mkBuffer |-> mkBuffer,
              dekAssigned |-> TRUE, dek |-> ZeroFill(dek), stage |-> "payload",
              decipherUses |-> <<mkBuffer, dek>>]
        ELSE IF parsed.error # ""
        THEN [status |-> Classify(parsed.error), message |-> parsed.error,
              thrown |-> ThrownMessage(parsed.error, parsed.quoted),
              returned |-> FALSE, value |-> <<>>, mkBuffer |-> mkBuffer,
              dekAssigned |-> TRUE, dek |-> ZeroFill(dek), stage |-> "parse",
              decipherUses |-> <<mkBuffer, dek>>]
        ELSE [status |-> "ok", message |-> "",
              thrown |-> ThrownMessage("", <<>>),
              returned |-> TRUE, value |-> parsed.value, mkBuffer |-> mkBuffer,
              dekAssigned |-> TRUE, dek |-> ZeroFill(dek), stage |-> "parse",
              decipherUses |-> <<mkBuffer, dek>>]

-----------------------------------------------------------------------------
(* validateRecord *)

\* HEX_REGEX.test(value): one or more characters, all of them hex digits
HexRegexTestAcceptAll(value) == TRUE
HexRegexTest(value) ==
    /\ Len(value) > 0
    /\ \A i \in 1..Len(value) : HexVal(value[i]) >= 0

\* value.slice(0, 20)
Slice20(value) == SubSeq(value, 1, IF Len(value) < 20 THEN Len(value) ELSE 20)

\* What a ValidationError message says: the rule broken, the field named,
\* the expected byte length it states (0 if it states none), the part of the
\* field's value it quotes.
NoViolation == [rule |-> "", field |-> "", expectedBytes |-> 0, excerpt |-> <<>>]

Violation(rule, fieldName, expectedBytes, excerpt) ==
    [rule |-> rule, field |-> fieldName, expectedBytes |-> expectedBytes,
     excerpt |-> excerpt]

validateHexFieldLengthFirst(value, fieldName, expectedBytes) ==
    IF Len(value) # expectedBytes * 2
    THEN Violation("length", fieldName, expectedBytes, <<>>)
    ELSE IF ~HexRegexTest(value)
    THEN Violation("invalid hex characters", fieldName, 0, Slice20(value))
    ELSE NoViolation
validateHexField(value, fieldName, expectedBytes) ==
    IF ~HexRegexTest(value)
    THEN Violation("invalid hex characters", fieldName, 0, Slice20(value))
    ELSE IF Len(value) # expectedBytes * 2
    THEN Violation("length", fieldName, expectedBytes, <<>>)
    ELSE NoViolation

validateHexFieldNonEmpty(value, fieldName) ==
    IF Len(value) = 0
    THEN Violation("empty", fieldName, 0, <<>>)
    ELSE IF Len(value) % 2 # 0
    THEN Violation("odd length", fieldName, 0, <<>>)
    ELSE IF ~HexRegexTest(value)
    THEN Violation("invalid hex characters", fieldName, 0, Slice20(value))
    ELSE NoViolation

\* record.alg !== "AES-256-GCM"
validateAlgAcceptAll(alg) == NoViolation
validateAlg(alg) ==
    IF alg # ALG THEN Violation("alg", "alg", 0, <<>>) ELSE NoViolation

\* typeof record.mk_version !== "number" || record.mk_version < 1
validateMkVersion(mk_version) ==
    IF TypeOf(mk_version) # "number" \/ LessThanOne(mk_version)
    THEN Violation("mk_version", "mk_version", 0, <<>>)
    ELSE NoViolation

\* validateRecord(record): the checks in the order of the code; the first
\* one that fails throws
validateRecord(record) ==
    LET checks ==
            << validateHexField(record.payload_nonce, "payload_nonce", NONCE_BYTES),
               validateHexField(record.dek_wrap_nonce, "dek_wrap_nonce", NONCE_BYTES),
               validateHexField(record.payload_tag, "payload_tag", TAG_BYTES),
               validateHexField(record.dek_wrap_tag, "dek_wrap_tag", TAG_BYTES),
               validateHexFieldNonEmpty(record.payload_ct, "payload_ct"),
               validateHexFieldNonEmpty(record.dek_wrapped, "dek_wrapped"),
               validateAlg(record.alg),
               validateMkVersion(record.mk_version) >>
        failed == { i \in 1..Len(checks) : checks[i].rule # "" }
    IN  IF failed = {}
        THEN [status |-> "ok", violation |-> NoViolation]
        ELSE [status |-> "ValidationError", violation |-> checks[Min(failed)]]

-----------------------------------------------------------------------------
(* Inputs *)

KeyBytes(n) == [ i \in 1..KEY_BYTES |-> (101 * n + 7 * i) % 256 ]

\* two well-formed master keys (64 hex characters each)
MasterKeyA == ToHexString(KeyBytes(1))
MasterKeyB == ToHexString(KeyBytes(2))
\* 65 hex characters: not a 32-byte key, yet Buffer.from decodes 32 bytes of it
MasterKeyOdd == MasterKeyA \o <<102>>
\* 62 hex characters: 31 bytes
MasterKeyShort == SubSeq(MasterKeyA, 1, 62)

MasterKeys == {MasterKeyA, MasterKeyB, MasterKeyOdd, MasterKeyShort}

\* a master key as the documentation defines it: exactly 64 hex characters
IsWellFormedKey(masterKey) ==
    /\ Len(masterKey) = 2 * KEY_BYTES
    /\ \A i \in 1..Len(masterKey) : HexVal(masterKey[i]) >= 0

\* the mkVersion argument is a number, or undefined when it is omitted
EncryptCalls ==
    { [partyId |-> "party_A", payload |-> PayloadNumber, mkVersion |-> Num(0)],
      [partyId |-> "party_B", payload |-> PayloadText,   mkVersion |-> Num(2)],
      [partyId |-> "party_A", payload |-> PayloadNaN,    mkVersion |-> UndefinedValue],
      [partyId |-> "party_B", payload |-> PayloadBigInt, mkVersion |-> Num(1)] }

Seeds == 1..NumSeeds

\* the three ways one character of a stored hex field is changed:
\*   "flip"  to a hex digit of another value (the tests' flipHexChar)
\*   "case"  to the same digit in upper case (letters only)
\*   "junk"  to a character that is no hex digit
TamperKinds == {"flip", "case", "junk"}

UpperCase(c) == IF c >= 97 /\ c <= 102 THEN c - 32 ELSE c

TamperedChar(c, how) ==
    CASE how = "flip" -> (IF c = 97 THEN 98 ELSE 97)
      [] how = "case" -> UpperCase(c)
      [] OTHER        -> 122

\* lengths (in characters) a stored hex field is cut down to
TruncatedLengths(str) == {0, 7, 8, 24} \cap (0..(Len(str) - 1))

\* values the alg and mk_version columns of a stored record may hold
StoredAlgs == {"AES-256-GCM", "aes-256-gcm", "AES-256-GCM-SIV", "AES-128-GCM"}
StoredVersions == {Num(1), Num(0), Num(-1), Half(3), Half(1), NaNValue,
                   Str(<<49>>), UndefinedValue}
\* and its id, partyId and createdAt columns
StoredIds == {RandomUUID(NumSeeds + 1)}
StoredPartyIds == {"party_C"}
StoredDates == {"1970-01-01T00:00:00.000Z"}

\* groups of fields copied together from another record
SpliceGroups == {"wrap", "payload", "all"}

SpliceFields(group) ==
    CASE group = "wrap"    -> {"dek_wrap_nonce", "dek_wrapped", "dek_wrap_tag"}
      [] group = "payload" -> {"payload_nonce", "payload_ct", "payload_tag"}
      [] OTHER             -> HexFields

\* what a hand-built record may hold: text that is no JSON ("no") or is, and a
\* DEK of the right or of a wrong length
ForeignPlaintexts == { <<110, 111>>, <<123, 125>> }
ForeignDekLengths == {KEY_BYTES, TAG_BYTES}

SetField(record, field, value) == [record EXCEPT ![field] = value]

CopyFields(record, donor, fields) ==
    [ f \in DOMAIN record |-> IF f \in fields THEN donor[f] ELSE record[f] ]

NoOrigin == [kind |-> "none", mkBuffer |-> <<>>, payload |-> <<>>, record |-> NoRecord]
NoEdit   == [kind |-> "none", field |-> "", pos |-> 0, how |-> "",
             donorKey |-> <<>>, donorPayload |-> <<>>, variants |-> <<>>]
NoOut    == [op |-> "none", masterKey |-> <<>>, payload |-> <<>>,
             partyId |-> "", mkVersion |-> UndefinedValue,
             result |-> [status |-> "none"]]

-----------------------------------------------------------------------------
(* State machine: calls of the two operations, and a store that may alter *)
(* the record between them                                                *)

\* the parts of the state a specification does not use stay as they start
CoreIdle == rec = NoRecord /\ origin = NoOrigin /\ edit = NoEdit /\ out = NoOut
RouteIdle == fallbackStore = <<>> /\ env = <<>> /\ request = <<>>
HandlerIdle ==
    appPromise = 0 /\ invocations = <<>> /\ initStoreCalls = 0 /\ buildAppCalls = 0
CallIdle == calls = <<>> /\ frames = <<>>
CompareIdle == compare = <<>>

notCoreVars == <<routeVars, handlerVars, callVars, compareVars>>

Init ==
    /\ rec = NoRecord
    /\ origin = NoOrigin
    /\ edit = NoEdit
    /\ out = NoOut
    /\ RouteIdle /\ HandlerIdle /\ CallIdle /\ CompareIdle

\* a caller runs encrypt; the record returned, if any, is the record at rest
Encrypt(masterKey, call, seed) ==
    LET r == encrypt(masterKey, call.partyId, call.payload, call.mkVersion, seed)
    IN  /\ origin.kind = "none"
        /\ out.op = "none"
        /\ out' = [op |-> "encrypt", masterKey |-> masterKey,
                   payload |-> call.payload, partyId |-> call.partyId,
                   mkVersion |-> call.mkVersion, result |-> r]
        /\ rec' = r.record
        /\ origin' = IF r.hasRecord
                     THEN [kind |-> "encrypt", mkBuffer |-> r.mkBuffer,
                           payload |-> call.payload, record |-> r.record]
                     ELSE NoOrigin
        /\ edit' = NoEdit
        /\ UNCHANGED notCoreVars

\* a record that encrypt did not produce is at rest: a holder of the master
\* key sealed plaintext of its own choice under a DEK of its own choice
foreignRecord(masterKey, dek, plaintext, seed) ==
    LET mkBuffer      == BufferFromHex(masterKey)
        payloadNonce  == RandomBytes(seed, 2, NONCE_BYTES)
        sealedPayload == GcmEncrypt(dek, payloadNonce, plaintext)
        dekWrapNonce  == RandomBytes(seed, 3, NONCE_BYTES)
        sealedDek     == GcmEncrypt(mkBuffer, dekWrapNonce, dek)
    IN  [id |-> RandomUUID(seed), partyId |-> "party_A", createdAt |-> Now,
         payload_nonce |-> ToHexString(payloadNonce),
         payload_ct |-> ToHexString(sealedPayload.ciphertext),
         payload_tag |-> ToHexString(sealedPayload.tag),
         dek_wrap_nonce |-> ToHexString(dekWrapNonce),
         dek_wrapped |-> ToHexString(sealedDek.ciphertext),
         dek_wrap_tag |-> ToHexString(sealedDek.tag),
         alg |-> ALG, mk_version |-> Num(1)]

StoreForeign(masterKey, dekLen, plaintext) ==
    /\ origin.kind = "none"
    /\ out.op = "none"
    /\ rec' = foreignRecord(masterKey, RandomBytes(1, 1, dekLen), plaintext, 1)
    /\ origin' = [kind |-> "foreign", mkBuffer |-> BufferFromHex(masterKey),
                  payload |-> <<>>, record |-> rec']
    /\ edit' = NoEdit
    /\ out' = NoOut
    /\ UNCHANGED notCoreVars

\* one character of one hex field of the record at rest is changed
TamperChar(field, pos, how) ==
    /\ origin.kind = "encrypt"
    /\ edit.kind = "none"
    /\ TamperedChar(rec[field][pos], how) # rec[field][pos]
    /\ rec' = SetField(rec, field,
                       [rec[field] EXCEPT ![pos] = TamperedChar(rec[field][pos], how)])
    /\ edit' = [NoEdit EXCEPT !.kind = "char", !.field = field,
                              !.pos = pos, !.how = how]
    /\ out' = NoOut
    /\ UNCHANGED <<origin, notCoreVars>>

\* one hex field of the record at rest is cut short
Truncate(field, n) ==
    /\ origin.kind = "encrypt"
    /\ edit.kind = "none"
    /\ rec' = SetField(rec, field, SubSeq(rec[field], 1, n))
    /\ edit' = [NoEdit EXCEPT !.kind = "truncate", !.field = field, !.pos = n]
    /\ out' = NoOut
    /\ UNCHANGED <<origin, notCoreVars>>

\* fields of another record that encrypt produced are copied into the record
Splice(group, masterKey, call, seed) ==
    LET donor == encrypt(masterKey, call.partyId, call.payload, call.mkVersion, seed)
    IN  /\ origin.kind = "encrypt"
        /\ edit.kind = "none"
        /\ donor.hasRecord
        /\ donor.record # origin.record
        /\ rec' = CopyFields(rec, donor.record, SpliceFields(group))
        /\ edit' = [NoEdit EXCEPT !.kind = "splice", !.field = group,
                                  !.donorKey = masterKey,
                                  !.donorPayload = call.payload]
        /\ out' = NoOut
        /\ UNCHANGED <<origin, notCoreVars>>

\* the alg or the mk_version of the record at rest is changed
SetMeta(field, value) ==
    /\ origin.kind = "encrypt"
    /\ edit.kind = "none"
    /\ value # rec[field]
    /\ rec' = SetField(rec, field, value)
    /\ edit' = [NoEdit EXCEPT !.kind = "meta", !.field = field]
    /\ out' = NoOut
    /\ UNCHANGED <<origin, notCoreVars>>

\* a caller runs validateRecord on the record at rest
Validate ==
    /\ origin.kind # "none"
    /\ out.op # "validate"
    /\ out' = [NoOut EXCEPT !.op = "validate", !.result = validateRecord(rec)]
    /\ UNCHANGED <<rec, origin, edit, notCoreVars>>

DecryptValidated(masterKey) ==
    /\ origin.kind # "none"
    /\ out.op # "decrypt"
    /\ out' = [NoOut EXCEPT
                 !.op = "decrypt", !.masterKey = masterKey,
                 !.result = IF validateRecord(rec).status = "ok"
                            THEN decrypt(masterKey, rec)
                            ELSE [decrypt(masterKey, rec) EXCEPT
                                    !.status = "ValidationError",
                                    !.returned = FALSE, !.value = <<>>]]
    /\ UNCHANGED <<rec, origin, edit, notCoreVars>>
\* a caller runs decrypt on the record at rest
Decrypt(masterKey) ==
    /\ origin.kind # "none"
    /\ out.op # "decrypt"
    /\ out' = [NoOut EXCEPT !.op = "decrypt", !.masterKey = masterKey,
                             !.result = decrypt(masterKey, rec)]
    /\ UNCHANGED <<rec, origin, edit, notCoreVars>>

\* the caller is done with the result of its call
Consume ==
    /\ out.op # "none"
    /\ origin.kind # "none"
    /\ out' = NoOut
    /\ UNCHANGED <<rec, origin, edit, notCoreVars>>

\* the record at rest is deleted, or a failed call is over
Discard ==
    /\ out.op # "none"
    /\ rec' = NoRecord
    /\ origin' = NoOrigin
    /\ edit' = NoEdit
    /\ out' = NoOut
    /\ UNCHANGED notCoreVars

Next ==
    \/ \E k \in MasterKeys, c \in EncryptCalls, s \in Seeds : Encrypt(k, c, s)
    \/ \E f \in HexFields : \E p \in 1..Len(rec[f]) : \E h \in TamperKinds :
           TamperChar(f, p, h)
    \/ \E f \in HexFields : \E n \in TruncatedLengths(rec[f]) : Truncate(f, n)
    \/ \E g \in SpliceGroups, k \in MasterKeys, c \in EncryptCalls, s \in Seeds :
           Splice(g, k, c, s)
    \/ \E k \in {MasterKeyA, MasterKeyB}, n \in ForeignDekLengths,
          t \in ForeignPlaintexts : StoreForeign(k, n, t)
    \/ \E a \in StoredAlgs : SetMeta("alg", a)
    \/ \E v \in StoredVersions : SetMeta("mk_version", v)
    \/ \E i \in StoredIds : SetMeta("id", i)
    \/ \E q \in StoredPartyIds : SetMeta("partyId", q)
    \/ \E d \in StoredDates : SetMeta("createdAt", d)
    \/ Validate
    \/ \E k \in MasterKeys : Decrypt(k)
    \/ Consume
    \/ Discard

Spec == Init /\ [][Next]_vars

-----------------------------------------------------------------------------
(* Properties *)

\* decrypt has just run on the record at rest, which encrypt produced
DecryptedOwn == out.op = "decrypt" /\ origin.kind = "encrypt"

\* ... under the key bytes the record was encrypted with
UnderOriginalKey == BufferFromHex(out.masterKey) = origin.mkBuffer

\* ... under 32 key bytes other than those the record was encrypted with
UnderOtherKey ==
    /\ Len(BufferFromHex(out.masterKey)) = KEY_BYTES
    /\ BufferFromHex(out.masterKey) # origin.mkBuffer

TagProtectedFields == {"payload_ct", "payload_tag", "dek_wrap_tag"}

\* C1 (round trip): decrypting an unmodified record that encrypt produced from
\* a JSON-compatible payload p, under the master key it was encrypted with,
\* returns a value equal to p.
C1_RoundTrip ==
    (DecryptedOwn /\ edit.kind = "none" /\ UnderOriginalKey
        /\ IsJsonCompatible(origin.payload))
    => (out.result.status = "ok" /\ out.result.returned
        /\ out.result.value = origin.payload)

C1_Witness ==
    /\ DecryptedOwn /\ edit.kind = "none" /\ UnderOriginalKey
    /\ origin.payload = PayloadText
    /\ out.result.returned
    /\ out.result.value = PayloadText

C3_WrongKeyFails ==
    (DecryptedOwn /\ edit.kind = "none" /\ UnderOtherKey)
    => (/\ ~out.result.returned
        /\ out.result.status \in {"TamperedDataError", "DecryptionError"}
        /\ out.result.status = "TamperedDataError"
        /\ out.result.stage = "unwrap")

C3_Witness ==
    /\ DecryptedOwn /\ edit.kind = "none" /\ UnderOtherKey
    /\ out.masterKey = MasterKeyB
    /\ out.result.status = "TamperedDataError"

\* C4 as claimed (all or nothing): whatever was done to the six hex fields of
\* a record encrypt produced from p, decrypt under the original key returns
\* exactly p or fails.
C4_ReturnsOwnPayloadOrFails ==
    (DecryptedOwn /\ UnderOriginalKey /\ IsJsonCompatible(origin.payload)
        /\ out.result.returned)
    => out.result.value = origin.payload

\* C4 as amended: decrypt under the original key returns exactly p, or fails,
\* or, when fields of another record that encrypt produced were copied into
\* the record, returns exactly that record's payload; it never returns
\* anything else.  Copying all six fields succeeds only for a record made
\* under the same master key; copying the payload fields alone succeeds only
\* when both encrypt calls drew the same DEK.
C4_ReturnsGenuinePayloadOrFails ==
    (DecryptedOwn /\ UnderOriginalKey /\ IsJsonCompatible(origin.payload)
        /\ (edit.kind = "splice" => IsJsonCompatible(edit.donorPayload))
        /\ out.result.returned)
    => \/ out.result.value = origin.payload
       \/ /\ edit.kind = "splice"
          /\ out.result.value = edit.donorPayload
          /\ \/ BufferFromHex(edit.donorKey) = origin.mkBuffer
             \/ edit.field = "payload"

C4_Witness ==
    /\ DecryptedOwn /\ UnderOriginalKey
    /\ edit.kind = "splice" /\ edit.field = "all"
    /\ IsJsonCompatible(origin.payload) /\ IsJsonCompatible(edit.donorPayload)
    /\ out.result.returned
    /\ out.result.value = edit.donorPayload
    /\ out.result.value # origin.payload

\* C6 (DEK hygiene): whenever encrypt or decrypt ends, normally or with an
\* error, after a DEK buffer was created (encrypt) or recovered (decrypt),
\* that buffer holds only zero bytes.
C6_DekZeroedOnEveryExit ==
    /\ (out.op = "encrypt" /\ out.result.dekCreated)
          => (Len(out.result.dek) = KEY_BYTES /\ IsZero(out.result.dek))
    /\ (out.op = "decrypt" /\ out.result.dekAssigned)
          => IsZero(out.result.dek)

C6_Witness ==
    /\ DecryptedOwn /\ UnderOriginalKey
    /\ out.result.status = "TamperedDataError"
    /\ out.result.stage = "payload"
    /\ out.result.dekAssigned
    /\ Len(out.result.dek) = KEY_BYTES
    /\ IsZero(out.result.dek)

\* C7 as claimed: when encrypt or decrypt ends, every key buffer the call
\* allocated, the decoded master key as well as the DEK, holds only zero bytes.
C7_AllKeyBuffersZeroed ==
    (out.op \in {"encrypt", "decrypt"})
    => /\ IsZero(out.result.mkBuffer)
       /\ IsZero(out.result.dek)

\* C8 as claimed: a master key that is not a string of exactly 64 hex
\* characters makes encrypt fail with EncryptionError before anything random
\* is drawn, and makes decrypt fail with DecryptionError before any
\* cryptographic operation.
C8_OnlyWellFormedKeysAccepted ==
    /\ (out.op = "encrypt" /\ ~IsWellFormedKey(out.masterKey))
          => (/\ out.result.status = "EncryptionError"
              /\ out.result.draws = 0
              /\ ~out.result.hasRecord)
    /\ (out.op = "decrypt" /\ ~IsWellFormedKey(out.masterKey))
          => (/\ out.result.status = "DecryptionError"
              /\ out.result.stage = "key")

\* C9 as claimed: encrypt with a valid master key and a payload that
\* JSON.stringify cannot serialize fails with EncryptionError, returns no
\* record and leaves the DEK zeroed.
C9_UnserializableIsEncryptionError ==
    (/\ out.op = "encrypt"
     /\ Len(BufferFromHex(out.masterKey)) = KEY_BYTES
     /\ JSONstringify(out.payload).error # "")
    => (/\ out.result.status = "EncryptionError"
        /\ ~out.result.hasRecord
        /\ IsZero(out.result.dek))

\* the tag check of a GCM decryption is reached and fails
TagCheckFails(key, iv, ciphertext, tag) ==
    /\ CipherInitError(key, iv) = ""
    /\ SetAuthTagError(tag) = ""
    /\ ~GcmFinalVerifies(key, iv, ciphertext, tag)

\* a GCM decryption fails before its tag check
FailsBeforeTagCheck(key, iv, tag) ==
    \/ CipherInitError(key, iv) # ""
    \/ SetAuthTagError(tag) # ""

-----------------------------------------------------------------------------
(* Error propagation and record validation *)

TypedErrors == {"EncryptionError", "ValidationError", "DecryptionError",
                "TamperedDataError"}

NonceFields == {"payload_nonce", "dek_wrap_nonce"}
TagFields == {"payload_tag", "dek_wrap_tag"}
CiphertextFields == {"payload_ct", "dek_wrapped"}

ExpectedBytes(field) == IF field \in NonceFields THEN NONCE_BYTES ELSE TAG_BYTES

HasNonHexCharacter(str) == \E i \in 1..Len(str) : HexVal(str[i]) < 0

\* C11 (propagation policy): every failed encrypt, validate or decrypt call
\* ends with one of the four typed errors, and the message of the error
\* carries no text of a library error and no text of the decrypted payload.
C11_TypedErrorsWithoutLibraryText ==
    /\ (out.op # "none" /\ out.result.status # "ok")
        => out.result.status \in TypedErrors
    /\ (out.op = "decrypt" /\ out.result.status # "ok")
        => /\ out.result.thrown.libraryText = ""
           /\ out.result.thrown.quoted = <<>>

\* C12: validateRecord rejects every record in which a nonce is not 24 hex
\* characters or a tag is not 32, and the message of the ValidationError
\* names that field and the byte length expected of it.
C12_LengthErrorNamesFieldAndBytes ==
    \A f \in NonceFields \cup TagFields :
        (/\ out.op = "validate"
         /\ Len(rec[f]) # 2 * ExpectedBytes(f)
         /\ \A g \in (NonceFields \cup TagFields) \ {f} :
                validateHexField(rec[g], g, ExpectedBytes(g)) = NoViolation)
        => /\ out.result.status = "ValidationError"
           /\ out.result.violation.field = f
           /\ out.result.violation.expectedBytes = ExpectedBytes(f)

\* C13: validateRecord rejects with ValidationError every record whose
\* payload_ct or dek_wrapped is empty or of odd length, and every record in
\* which one of the six hex fields holds a character that is no hex digit.
C13_RejectsBadEncoding ==
    (/\ out.op = "validate"
     /\ \/ \E f \in CiphertextFields : Len(rec[f]) = 0 \/ Len(rec[f]) % 2 = 1
        \/ \E f \in HexFields : HasNonHexCharacter(rec[f]))
    => out.result.status = "ValidationError"

C13_Witness ==
    /\ out.op = "validate"
    /\ out.result.status = "ValidationError"
    /\ \/ /\ edit.kind = "char" /\ edit.how = "junk"
          /\ edit.field \in CiphertextFields
          /\ out.result.violation.rule = "invalid hex characters"
       \/ /\ edit.kind = "truncate" /\ edit.field \in CiphertextFields
          /\ out.result.violation.rule \in {"empty", "odd length"}

\* C14 (closed-world algorithm check): validateRecord rejects with
\* ValidationError every record whose alg is not "AES-256-GCM"; when nothing
\* else is wrong with the record the error is the one about the algorithm.
C14_OnlySupportedAlgAccepted ==
    (out.op = "validate" /\ rec.alg # ALG)
    => /\ out.result.status = "ValidationError"
       /\ edit.kind = "meta" => out.result.violation.rule = "alg"

C14_Witness ==
    /\ out.op = "validate"
    /\ edit.kind = "meta" /\ edit.field = "alg"
    /\ rec.alg = "AES-256-GCM-SIV"
    /\ out.result.status = "ValidationError"
    /\ out.result.violation.rule = "alg"

IsPositiveInteger(v) == v.t = "number" /\ v.n >= 1

\* C15: validateRecord accepts a record only if its mk_version is a positive
\* integer.
C15_AcceptedVersionIsPositiveInteger ==
    (out.op = "validate" /\ out.result.status = "ok")
    => IsPositiveInteger(rec.mk_version)

\* C16 (validate before decrypt): when the record handed to the decryption
\* path, with a master key of 32 bytes, is one validateRecord rejects, the
\* call ends with ValidationError before any cryptographic operation.
C16_MalformedRecordIsValidationError ==
    (/\ out.op = "decrypt"
     /\ Len(BufferFromHex(out.masterKey)) = KEY_BYTES
     /\ validateRecord(rec).status # "ok")
    => out.result.status = "ValidationError"

\* C17: decrypt returns no payload for a record in which a nonce does not
\* decode to 12 bytes or a tag does not decode to 16 bytes.
C17_DecryptRejectsWrongLengths ==
    (/\ out.op = "decrypt"
     /\ \E f \in NonceFields \cup TagFields :
            Len(BufferFromHex(rec[f])) # ExpectedBytes(f))
    => ~out.result.returned

\* C18: a record returned by encrypt carries the partyId given, alg
\* "AES-256-GCM", and as mk_version the mkVersion argument, or 1 when that
\* argument was omitted.
C18_RecordCarriesArguments ==
    (out.op = "encrypt" /\ out.result.hasRecord)
    => /\ out.result.record.partyId = out.partyId
       /\ out.result.record.alg = ALG
       /\ out.result.record.mk_version =
              (IF out.mkVersion = UndefinedValue THEN Num(1) ELSE out.mkVersion)

C18_Witness ==
    /\ out.op = "encrypt" /\ out.result.hasRecord
    /\ out.mkVersion = UndefinedValue
    /\ out.result.record.mk_version = Num(1)
    /\ out.result.record.partyId = "party_A"

\* C19: validateRecord accepts every record that encrypt returns.
C19_EncryptedRecordIsValid ==
    (out.op = "encrypt" /\ out.result.hasRecord)
    => validateRecord(out.result.record).status = "ok"

Contains(str, part) ==
    \E i \in 0..(Len(str) - Len(part)) : SubSeq(str, i + 1, i + Len(part)) = part

\* C20 (envelope separation): in an encrypt call that returns a record the
\* master key is the key of exactly one authenticated encryption, whose
\* plaintext is the 32-byte DEK (the key of the payload encryption) and not
\* the payload, and no hex field of the record returned, which is the record
\* at rest, contains the DEK; the DEK does decode from dek_wrapped's wrapping.
C20_EnvelopeSeparation ==
    (out.op = "encrypt" /\ out.result.hasRecord)
    => LET uses == out.result.cipherUses
           underMaster == { i \in 1..Len(uses) : uses[i].key = out.result.mkBuffer }
           underOther  == (1..Len(uses)) \ underMaster
       IN  /\ Cardinality(underMaster) = 1
           /\ Cardinality(underOther) = 1
           /\ \A i \in underMaster : \A j \in underOther :
                /\ Len(uses[i].plaintext) = KEY_BYTES
                /\ uses[i].plaintext = uses[j].key
                /\ uses[j].plaintext = Utf8Encode(JSONstringify(out.payload).text)
                /\ uses[i].plaintext # uses[j].plaintext
                /\ \A f \in HexFields :
                     /\ ~Contains(out.result.record[f], ToHexString(uses[j].key))
                     /\ ~Contains(rec[f], ToHexString(uses[j].key))
                /\ ~Contains(rec.id, ToHexString(uses[j].key))

C20_Witness ==
    /\ out.op = "encrypt" /\ out.result.hasRecord
    /\ Len(out.result.cipherUses) = 2
    /\ rec = out.result.record
    /\ Len(BufferFromHex(rec.dek_wrapped)) = KEY_BYTES

-----------------------------------------------------------------------------
(* The two stages of decrypt, and what decrypt reads of a record *)

\* the DEK unwrap of decrypt(masterKey, record) completes: the decipher is
\* created, the tag is taken and final() verifies it
UnwrapSucceeds(masterKey, record) ==
    LET mkBuffer == BufferFromHex(masterKey)
        nonce    == BufferFromHex(record.dek_wrap_nonce)
        wrapped  == BufferFromHex(record.dek_wrapped)
        tag      == BufferFromHex(record.dek_wrap_tag)
    IN  /\ CipherInitError(mkBuffer, nonce) = ""
        /\ Len(tag) \in ValidGcmTagLengths
        /\ tag = SubSeq(GcmTag(mkBuffer, nonce, wrapped), 1, Len(tag))

\* C26 (two-stage ordering): in a decrypt call with a 32-byte master key the
\* first decipher is keyed with the master key; a second decipher, for the
\* payload, is created only if the DEK unwrap succeeded, and its key is what
\* the unwrap produced (the bytes whose wrapping under the master key is
\* dek_wrapped); if the unwrap fails no second decipher is created and the
\* call returns nothing.
C26_PayloadStageAfterUnwrap ==
    (out.op = "decrypt" /\ out.result.stage # "key")
    => LET uses == out.result.decipherUses
           mkBuffer == BufferFromHex(out.masterKey)
       IN  /\ Len(uses) \in {1, 2}
           /\ uses[1] = mkBuffer
           /\ Len(uses) = 2 <=> UnwrapSucceeds(out.masterKey, rec)
           /\ Len(uses) = 2 =>
                GcmUpdateEncrypt(mkBuffer, BufferFromHex(rec.dek_wrap_nonce), uses[2])
                    = BufferFromHex(rec.dek_wrapped)
           /\ Len(uses) = 1 =>
                /\ ~out.result.returned
                /\ out.result.status \in {"TamperedDataError", "DecryptionError"}

C26_Witness ==
    /\ out.op = "decrypt"
    /\ edit.kind = "char" /\ edit.field = "dek_wrap_tag" /\ edit.how = "flip"
    /\ UnderOriginalKey
    /\ out.result.decipherUses = <<origin.mkBuffer>>
    /\ out.result.status = "TamperedDataError"

\* C28: the outcome of decrypt depends on the master key and the six hex
\* fields only: a record that differs from the one encrypt returned in its
\* id, partyId, createdAt, alg or mk_version gives, under every key, the very
\* outcome the record encrypt returned gives.
C28_MetadataNotRead ==
    (out.op = "decrypt" /\ edit.kind = "meta")
    => out.result = decrypt(out.masterKey, origin.record)

C28_Witness ==
    /\ out.op = "decrypt" /\ edit.kind = "meta" /\ edit.field = "alg"
    /\ rec.alg = "AES-128-GCM"
    /\ UnderOriginalKey
    /\ out.result.returned
    /\ out.result.value = origin.payload

-----------------------------------------------------------------------------
(* constantTimeTagCompare *)

\* crypto.timingSafeEqual(bufA, bufB) for buffers of one length: every byte
\* pair is examined whatever the bytes are.
\*   equal          the value returned
\*   bytesCompared  the number of byte pairs examined, which is its running time
EarlyExitEqual(bufA, bufB) ==
    LET mismatches == { i \in 1..Len(bufA) : bufA[i] # bufB[i] }
    IN  [equal |-> mismatches = {},
         bytesCompared |-> IF mismatches = {} THEN Len(bufA) ELSE Min(mismatches)]
TimingSafeEqual(bufA, bufB) ==
    LET mismatches == { i \in 1..Len(bufA) : bufA[i] # bufB[i] }
    IN  [equal |-> mismatches = {}, bytesCompared |-> Len(bufA)]

\* constantTimeTagCompare(tagA, tagB)
\*   result         the value returned
\*   bytesDecoded   the bytes the two Buffer.from calls produced
\*   bytesCompared  the byte pairs timingSafeEqual examined (0 if not called)
constantTimeTagCompare(tagA, tagB) ==
    LET bufA == BufferFromHex(tagA)
        bufB == BufferFromHex(tagB)
        safe == TimingSafeEqual(bufA, bufB)
    IN  IF Len(bufA) # Len(bufB)
        THEN [result |-> FALSE, bytesDecoded |-> Len(bufA) + Len(bufB),
              bytesCompared |-> 0]
        ELSE [result |-> safe.equal, bytesDecoded |-> Len(bufA) + Len(bufB),
              bytesCompared |-> safe.bytesCompared]

\* the characters of the tag arguments: two hex digits ("a", "1") and a
\* character that is no hex digit ("z")
TagAlphabet == {97, 49, 122}

TagInputs == UNION { [1..n -> TagAlphabet] : n \in 0..MaxTagChars }

CompareInit ==
    /\ compare \in { [tagA |-> a, tagB |-> b, done |-> FALSE,
                      outcome |-> [result |-> FALSE, bytesDecoded |-> 0,
                                   bytesCompared |-> 0]] :
                     a \in TagInputs, b \in TagInputs }
    /\ CoreIdle /\ RouteIdle /\ HandlerIdle /\ CallIdle

\* the call is made
CompareTags ==
    /\ ~compare.done
    /\ compare' = [compare EXCEPT
                     !.done = TRUE,
                     !.outcome = constantTimeTagCompare(compare.tagA, compare.tagB)]
    /\ UNCHANGED <<coreVars, routeVars, handlerVars, callVars>>

CompareNext == CompareTags

CompareSpec == CompareInit /\ [][CompareNext]_vars

IsHexTag(tag) ==
    /\ Len(tag) % 2 = 0
    /\ \A i \in 1..Len(tag) : HexVal(tag[i]) >= 0

\* C22: constantTimeTagCompare returns false whenever its two arguments have
\* different lengths, and returns true if and only if the two are identical.
C22_TrueIffIdentical ==
    compare.done
    => /\ Len(compare.tagA) # Len(compare.tagB) => ~compare.outcome.result
       /\ compare.outcome.result <=> compare.tagA = compare.tagB

-----------------------------------------------------------------------------
(* validateRecord on records that break several rules at once *)

\* the fields in the order validateRecord checks them
CheckOrder == << "payload_nonce", "dek_wrap_nonce", "payload_tag", "dek_wrap_tag",
                 "payload_ct", "dek_wrapped", "alg", "mk_version" >>

\* the ways a field is made wrong
FieldVariants(field) ==
    IF field \in NonceFields \cup TagFields
    THEN {"good", "short", "nonhex", "short nonhex"}
    ELSE IF field \in CiphertextFields
    THEN {"good", "empty", "odd", "nonhex"}
    ELSE {"good", "bad"}

\* a record that encrypt returned
BaseRecord == encrypt(MasterKeyA, "party_B", PayloadText, Num(2), 1).record

WithJunk(str) == [str EXCEPT ![1] = 122]

VariantValue(field, variant) ==
    CASE variant = "good"         -> BaseRecord[field]
      [] variant = "short"        -> SubSeq(BaseRecord[field], 1, 8)
      [] variant = "nonhex"       -> WithJunk(BaseRecord[field])
      [] variant = "short nonhex" -> WithJunk(SubSeq(BaseRecord[field], 1, 8))
      [] variant = "empty"        -> <<>>
      [] variant = "odd"          -> SubSeq(BaseRecord[field], 1, 7)
      [] field = "alg"            -> "AES-128-GCM"
      [] OTHER                    -> Num(0)

VariantVectors ==
    { v \in [1..Len(CheckOrder) -> {"good", "short", "nonhex", "short nonhex",
                                    "empty", "odd", "bad"}] :
        \A i \in 1..Len(CheckOrder) : v[i] \in FieldVariants(CheckOrder[i]) }

VariantRecord(v) ==
    [ f \in DOMAIN BaseRecord |->
        IF \E i \in 1..Len(CheckOrder) : CheckOrder[i] = f
        THEN VariantValue(f, v[CHOOSE i \in 1..Len(CheckOrder) : CheckOrder[i] = f])
        ELSE BaseRecord[f] ]

ValidateInit ==
    /\ \E v \in VariantVectors :
          /\ rec = VariantRecord(v)
          /\ edit = [NoEdit EXCEPT !.kind = "variants", !.variants = v]
    /\ origin = [NoOrigin EXCEPT !.kind = "built", !.record = BaseRecord]
    /\ out = NoOut
    /\ RouteIdle /\ HandlerIdle /\ CallIdle /\ CompareIdle

ValidateNext == Validate

ValidateSpec == ValidateInit /\ [][ValidateNext]_vars

\* the rule whose ValidationError a field made wrong in this way gets
ExpectedRule(variant) ==
    CASE variant = "short"        -> "length"
      [] variant = "nonhex"       -> "invalid hex characters"
      [] variant = "short nonhex" -> "invalid hex characters"
      [] variant = "empty"        -> "empty"
      [] variant = "odd"          -> "odd length"
      [] OTHER                    -> "bad"

\* C27: validateRecord reports the earliest failing check in the order
\* payload_nonce, dek_wrap_nonce, payload_tag, dek_wrap_tag, payload_ct,
\* dek_wrapped, alg, mk_version; in a nonce or tag field a non-hex character
\* is reported before a wrong length; it succeeds exactly when no check fails.
C27_FirstViolationInOrder ==
    (out.op = "validate" /\ edit.kind = "variants")
    => LET wrong == { i \in 1..Len(CheckOrder) : edit.variants[i] # "good" }
           first == Min(wrong)
       IN  IF wrong = {}
           THEN out.result.status = "ok"
           ELSE /\ out.result.status = "ValidationError"
                /\ out.result.violation.field = CheckOrder[first]
                /\ IF CheckOrder[first] \in {"alg", "mk_version"}
                   THEN out.result.violation.rule = CheckOrder[first]
                   ELSE out.result.violation.rule = ExpectedRule(edit.variants[first])

C27_Witness ==
    /\ out.op = "validate" /\ edit.kind = "variants"
    /\ edit.variants[1] = "good"
    /\ edit.variants[2] = "short nonhex"
    /\ edit.variants[3] = "short"
    /\ edit.variants[7] = "bad"
    /\ out.result.status = "ValidationError"
    /\ out.result.violation.field = "dek_wrap_nonce"
    /\ out.result.violation.rule = "invalid hex characters"

-----------------------------------------------------------------------------
(* The serverless entry point: getApp and handler *)

Invocations == 1..NumInvocations

HandlerInit ==
    /\ appPromise = 0
    /\ invocations = [ i \in Invocations |-> [pc |-> "start", app |-> 0] ]
    /\ initStoreCalls = 0
    /\ buildAppCalls = 0
    /\ CoreIdle /\ RouteIdle /\ CallIdle /\ CompareIdle

\* handler calls getApp, which tests appPromise: if it is set getApp returns
\* it; if not, initStore() is called and getApp waits for it
GetApp(i) ==
    /\ invocations[i].pc = "start"
    /\ IF appPromise = 0
       THEN /\ initStoreCalls' = initStoreCalls + 1
            /\ invocations' = [invocations EXCEPT ![i].pc = "awaitInitStore"]
       ELSE /\ invocations' = [invocations EXCEPT ![i].pc = "awaitApp",
                                                   ![i].app = appPromise]
            /\ UNCHANGED initStoreCalls
    /\ UNCHANGED <<appPromise, buildAppCalls, coreVars, routeVars, callVars,
                   compareVars>>

\* initStore has settled: getApp goes on with appPromise = buildApp() and
\* returns appPromise
BuildApp(i) ==
    /\ invocations[i].pc = "awaitInitStore"
    /\ buildAppCalls' = buildAppCalls + 1
    /\ appPromise' = buildAppCalls + 1
    /\ invocations' = [invocations EXCEPT ![i].pc = "awaitApp",
                                          ![i].app = buildAppCalls + 1]
    /\ UNCHANGED <<initStoreCalls, coreVars, routeVars, callVars, compareVars>>

\* the app is there: app.ready()
Ready(i) ==
    /\ invocations[i].pc = "awaitApp"
    /\ invocations' = [invocations EXCEPT ![i].pc = "awaitReady"]
    /\ UNCHANGED <<appPromise, initStoreCalls, buildAppCalls, coreVars, routeVars,
                   callVars, compareVars>>

\* app.inject(...) and the response is sent
Inject(i) ==
    /\ invocations[i].pc = "awaitReady"
    /\ invocations' = [invocations EXCEPT ![i].pc = "done"]
    /\ UNCHANGED <<appPromise, initStoreCalls, buildAppCalls, coreVars, routeVars,
                   callVars, compareVars>>

HandlerNext ==
    \E i \in Invocations : GetApp(i) \/ BuildApp(i) \/ Ready(i) \/ Inject(i)

HandlerSpec == HandlerInit /\ [][HandlerNext]_vars

\* C29: whatever the interleaving of the invocations, initStore and buildApp
\* are each called at most once and every request is served by one and the
\* same app.
C29_InitializedOnce ==
    /\ initStoreCalls <= 1
    /\ buildAppCalls <= 1
    /\ \A i, j \in Invocations :
          (invocations[i].app # 0 /\ invocations[j].app # 0)
          => invocations[i].app = invocations[j].app

-----------------------------------------------------------------------------
(* The HTTP routes over the record store *)

\* `!masterKey`: MASTER_KEY_HEX is not set, or is set to the empty string
MasterKeyNeverMissing(masterKey) == FALSE
MasterKeyMissing(masterKey) == masterKey = <<>>

\* error instanceof CryptoError
IsCryptoError(class) == class \in TypedErrors \cup {"CryptoError"}

\* the status the app's error handler gives an error a route lets through
setErrorHandler(class) ==
    IF class = "validation" THEN 400
    ELSE IF IsCryptoError(class) THEN 400
    ELSE 500

\* the catch block of POST /tx/:id/decrypt: the status, and what the reply
\* puts in front of the error's message
CatchDecrypt(class) ==
    IF class = "TamperedDataError"
    THEN [status |-> 400, prefix |-> "Tampered data detected: "]
    ELSE IF class = "ValidationError"
    THEN [status |-> 400, prefix |-> "Validation failed: "]
    ELSE IF IsCryptoError(class)
    THEN [status |-> 400, prefix |-> "Decryption failed: "]
    ELSE [status |-> setErrorHandler(class), prefix |-> ""]

\* the catch block of POST /tx/encrypt
CatchEncrypt(class) ==
    IF IsCryptoError(class) THEN 400 ELSE setErrorHandler(class)

\* saveRecord, once the insert has gone through: fallbackStore.set(record.id,
\* record), or a new row of the transactions table
StoreSetForgetsOthers(store, record) == (record.id :> record)
StoreSet(store, record) == (record.id :> record) @@ store

\* getRecord: the record stored under id, or undefined. With Supabase a query
\* that fails (queryOk = FALSE) is reported as undefined too.
getRecord(store, id, queryOk) ==
    IF queryOk /\ id \in DOMAIN store
    THEN [found |-> TRUE, record |-> store[id]]
    ELSE [found |-> FALSE, record |-> NoRecord]

\* values of MASTER_KEY_HEX a deployment may have
MasterKeySettings == {<<>>, MasterKeyA, MasterKeyB, MasterKeyShort}

\* request bodies of POST /tx/encrypt (the schema admits objects only)
EncryptBodies ==
    { [partyId |-> "party_A", payload |-> PayloadNumber],
      [partyId |-> "party_B", payload |-> PayloadText] }

\* ids a client asks for
RequestedIds == { RandomUUID(seed) : seed \in Seeds }

NoBody ==
    [success |-> FALSE, prefix |-> "", hasRecord |-> FALSE, record |-> NoRecord,
     hasPayload |-> FALSE, partyId |-> "", payload |-> <<>>]

NoRequest ==
    [route |-> "none", id |-> <<>>, partyId |-> "", payload |-> <<>>, seed |-> 0,
     pc |-> "replied", trace |-> <<>>, status |-> 0, body |-> NoBody,
     record |-> NoRecord]

Failure(prefix) == [NoBody EXCEPT !.prefix = prefix]
WithRecord(record) ==
    [NoBody EXCEPT !.success = TRUE, !.hasRecord = TRUE, !.record = record]
WithPayload(partyId, payload) ==
    [NoBody EXCEPT !.success = TRUE, !.hasPayload = TRUE, !.partyId = partyId,
                   !.payload = payload]

Replied(req, trace, status, body) ==
    [req EXCEPT !.pc = "replied", !.trace = trace, !.status = status,
                !.body = body]

RouteInit ==
    /\ fallbackStore = <<>>
    /\ env \in MasterKeySettings
    /\ request = NoRequest
    /\ CoreIdle /\ HandlerIdle /\ CallIdle /\ CompareIdle

notRouteVars == <<coreVars, handlerVars, callVars, compareVars>>

\* the service is deployed again with another MASTER_KEY_HEX; the records
\* stored so far stay
SetMasterKey(masterKey) ==
    /\ request.pc = "replied"
    /\ env # masterKey
    /\ env' = masterKey
    /\ UNCHANGED <<fallbackStore, request, notRouteVars>>

\* POST /tx/encrypt up to `await saveRecord(record)`. crypto.randomUUID() is
\* taken never to return an id it returned before.
PostEncrypt(body, seed) ==
    /\ request.pc = "replied"
    /\ RandomUUID(seed) \notin DOMAIN fallbackStore
    /\ LET masterKey == env
           req == [NoRequest EXCEPT !.route = "POST /tx/encrypt",
                                    !.partyId = body.partyId,
                                    !.payload = body.payload, !.seed = seed]
           result == encrypt(masterKey, body.partyId, body.payload,
                             UndefinedValue, seed)
           valid == validateRecord(result.record)
       IN  request' =
             IF MasterKeyMissing(masterKey)
             THEN Replied(req, <<>>, 500, Failure("Server misconfiguration"))
             ELSE IF result.status # "ok"
             THEN Replied(req, <<"encrypt">>, CatchEncrypt(result.status),
                          Failure(""))
             ELSE IF valid.status # "ok"
             THEN Replied(req, <<"encrypt", "validateRecord">>,
                          CatchEncrypt(valid.status), Failure(""))
             ELSE [req EXCEPT !.pc = "awaitSaveRecord",
                              !.trace = <<"encrypt", "validateRecord", "saveRecord">>,
                              !.record = result.record]
    /\ UNCHANGED <<fallbackStore, env, notRouteVars>>

\* saveRecord has stored the record: the route replies 201 with the record
SaveRecordDone ==
    /\ request.pc = "awaitSaveRecord"
    /\ fallbackStore' = StoreSet(fallbackStore, request.record)
    /\ request' = Replied(request, Append(request.trace, "reply"), 201,
                          WithRecord(request.record))
    /\ UNCHANGED <<env, notRouteVars>>

\* the Supabase insert reports an error: saveRecord throws an Error, which the
\* route throws on
SaveRecordFailed ==
    /\ request.pc = "awaitSaveRecord"
    /\ request' = Replied(request, Append(request.trace, "reply"),
                          CatchEncrypt("Error"), Failure(""))
    /\ UNCHANGED <<fallbackStore, env, notRouteVars>>

\* GET /tx/:id
GetTx(id, queryOk) ==
    /\ request.pc = "replied"
    /\ LET req == [NoRequest EXCEPT !.route = "GET /tx/:id", !.id = id]
           got == getRecord(fallbackStore, id, queryOk)
       IN  request' =
             IF ~got.found
             THEN Replied(req, <<"getRecord">>, 404, Failure("Record not found"))
             ELSE Replied(req, <<"getRecord">>, 200, WithRecord(got.record))
    /\ UNCHANGED <<fallbackStore, env, notRouteVars>>

\* POST /tx/:id/decrypt
PostDecrypt(id, queryOk) ==
    /\ request.pc = "replied"
    /\ LET req == [NoRequest EXCEPT !.route = "POST /tx/:id/decrypt", !.id = id]
           got == getRecord(fallbackStore, id, queryOk)
           masterKey == env
           result == decrypt(masterKey, got.record)
           caught == CatchDecrypt(result.status)
       IN  request' =
             IF ~got.found
             THEN Replied(req, <<"getRecord">>, 404, Failure("Record not found"))
             ELSE IF MasterKeyMissing(masterKey)
             THEN Replied(req, <<"getRecord">>, 500,
                          Failure("Server misconfiguration"))
             ELSE IF result.status = "ok"
             THEN Replied(req, <<"getRecord", "decrypt">>, 200,
                          WithPayload(got.record.partyId, result.value))
             ELSE Replied(req, <<"getRecord", "decrypt">>, caught.status,
                          Failure(caught.prefix))
    /\ UNCHANGED <<fallbackStore, env, notRouteVars>>

RouteNext ==
    \/ \E masterKey \in MasterKeySettings : SetMasterKey(masterKey)
    \/ \E body \in EncryptBodies, seed \in Seeds : PostEncrypt(body, seed)
    \/ SaveRecordDone
    \/ SaveRecordFailed
    \/ \E id \in RequestedIds, queryOk \in BOOLEAN : GetTx(id, queryOk)
    \/ \E id \in RequestedIds, queryOk \in BOOLEAN : PostDecrypt(id, queryOk)

RouteSpec == RouteInit /\ [][RouteNext]_vars

\* a step in which a route takes up a request
DecryptServed == request' # request /\ request'.route = "POST /tx/:id/decrypt"
EncryptServed == request' # request /\ request.pc = "replied"
                 /\ request'.route = "POST /tx/encrypt"

\* C24: POST /tx/:id/decrypt answers 404 when no record is stored under the
\* id, 500 when the record exists but no master key is configured, 400 when
\* decrypt raises a CryptoError of any kind, and 200 with the payload only
\* when decrypt succeeded.
C24_DecryptTransportMapping ==
    [][ DecryptServed =>
          LET id == request'.id
              stored == id \in DOMAIN fallbackStore
              result == decrypt(env, fallbackStore[id])
          IN  /\ ~stored => request'.status = 404
              /\ (stored /\ env = <<>>) => request'.status = 500
              /\ (stored /\ env # <<>> /\ result.status \in TypedErrors)
                 => request'.status = 400
              /\ request'.status = 200
                 => /\ stored /\ env # <<>> /\ result.status = "ok"
                    /\ request'.body.hasPayload
                    /\ request'.body.payload = result.value ]_vars

C30_EncryptRouteOrder ==
    [][ /\ EncryptServed =>
             LET result == encrypt(env, request'.partyId, request'.payload,
                                   UndefinedValue, request'.seed)
                 valid == validateRecord(result.record)
             IN  /\ fallbackStore' = fallbackStore
                 /\ request'.status # 201
                 /\ env = <<>> => (request'.status = 500 /\ request'.trace = <<>>)
                 /\ (env # <<>> /\ (result.status \in TypedErrors
                                    \/ (result.status = "ok"
                                        /\ valid.status \in TypedErrors)))
                    => (request'.status = 400 /\ request'.pc = "replied")
                 /\ request'.pc = "awaitSaveRecord"
                    => /\ result.status = "ok" /\ valid.status = "ok"
                       /\ request'.record = result.record
                       /\ request'.trace = <<"encrypt", "validateRecord", "saveRecord">>
        /\ (request' # request /\ request'.status = 201)
           => /\ request.pc = "awaitSaveRecord"
              /\ request'.body.record = request.record
              /\ request.record.id \in DOMAIN fallbackStore'
              /\ fallbackStore'[request.record.id] = request.record
        /\ fallbackStore' # fallbackStore
           => (request.pc = "awaitSaveRecord" /\ request'.status = 201) ]_vars

\* a record went through encrypt, validateRecord and saveRecord and came back
\* with 201; an encryption request without a master key was refused
C30_Witness ==
    /\ request.route = "POST /tx/encrypt" /\ request.status = 201
    /\ request.trace = <<"encrypt", "validateRecord", "saveRecord", "reply">>
    /\ request.record.id \in DOMAIN fallbackStore
    /\ fallbackStore[request.record.id] = request.record

-----------------------------------------------------------------------------
(* encrypt and decrypt calls in progress at the same time *)

CallIds == 1..NumCalls

\* the activation whose local variables call c uses: its own
FrameShared(c) == 1
Frame(c) == c

\* records of two parties under one master key, as in the test "different
\* partyIds can encrypt/decrypt independently"
RecordAlpha == encrypt(MasterKeyA, "party_A", PayloadNumber, UndefinedValue, 1).record
RecordBeta == encrypt(MasterKeyA, "party_B", PayloadText, UndefinedValue, 2).record

NoCall ==
    [op |-> "", masterKey |-> <<>>, partyId |-> "", payload |-> <<>>, seed |-> 0,
     record |-> NoRecord, pc |-> "start", status |-> "", value |-> <<>>]

CallEncrypt(masterKey, partyId, payload, seed) ==
    [NoCall EXCEPT !.op = "encrypt", !.masterKey = masterKey,
                   !.partyId = partyId, !.payload = payload, !.seed = seed]
CallDecrypt(masterKey, record) ==
    [NoCall EXCEPT !.op = "decrypt", !.masterKey = masterKey, !.record = record]

CallInputs ==
    { CallEncrypt(MasterKeyA, "party_A", PayloadNumber, 1),
      CallEncrypt(MasterKeyA, "party_B", PayloadText, 2),
      CallEncrypt(MasterKeyA, "party_B", PayloadBigInt, 2),
      CallDecrypt(MasterKeyA, RecordAlpha),
      CallDecrypt(MasterKeyA, RecordBeta),
      CallDecrypt(MasterKeyB, RecordAlpha) }

\* the local buffers of one activation
NoFrame ==
    [dek |-> <<>>, payloadNonce |-> <<>>, payloadCt |-> <<>>, payloadTag |-> <<>>]

CallInit ==
    /\ calls \in [CallIds -> CallInputs]
    /\ frames = [ f \in CallIds |-> NoFrame ]
    /\ CoreIdle /\ RouteIdle /\ HandlerIdle /\ CompareIdle

notCallVars == <<coreVars, routeVars, handlerVars, compareVars>>

Finished(call, status, value) ==
    [call EXCEPT !.pc = "done", !.status = status, !.value = value]

\* to the finally block, with the outcome the call will end with
ToFinally(call, status, value) ==
    [call EXCEPT !.pc = "finally", !.status = status, !.value = value]

\* the master key is checked; encrypt draws its DEK, decrypt unwraps it
CallStart(c) ==
    /\ calls[c].pc = "start"
    /\ LET call == calls[c]
           mkBuffer == BufferFromHex(call.masterKey)
           unwrap == GcmDecrypt(mkBuffer, BufferFromHex(call.record.dek_wrap_nonce),
                                BufferFromHex(call.record.dek_wrapped),
                                BufferFromHex(call.record.dek_wrap_tag))
       IN  IF Len(mkBuffer) # KEY_BYTES
           THEN /\ calls' = [calls EXCEPT ![c] =
                      Finished(call, IF call.op = "encrypt" THEN "EncryptionError"
                                     ELSE "DecryptionError", <<>>)]
                /\ UNCHANGED frames
           ELSE IF call.op = "encrypt"
           THEN /\ frames' = [frames EXCEPT ![Frame(c)].dek =
                                 RandomBytes(call.seed, 1, KEY_BYTES)]
                /\ calls' = [calls EXCEPT ![c].pc = "payload"]
           ELSE IF unwrap.error # ""
           THEN /\ calls' = [calls EXCEPT ![c] =
                                 Finished(call, Classify(unwrap.error), <<>>)]
                /\ UNCHANGED frames
           ELSE /\ frames' = [frames EXCEPT ![Frame(c)].dek = unwrap.plaintext]
                /\ calls' = [calls EXCEPT ![c].pc = "payload"]
    /\ UNCHANGED notCallVars

\* the payload is sealed (encrypt) or opened and parsed (decrypt) with the DEK
\* of the call's frame
CallPayload(c) ==
    /\ calls[c].pc = "payload"
    /\ LET call == calls[c]
           dek == frames[Frame(c)].dek
           json == JSONstringify(call.payload)
           payloadNonce == RandomBytes(call.seed, 2, NONCE_BYTES)
           sealed == GcmEncrypt(dek, payloadNonce, Utf8Encode(json.text))
           opened == GcmDecrypt(dek, BufferFromHex(call.record.payload_nonce),
                                BufferFromHex(call.record.payload_ct),
                                BufferFromHex(call.record.payload_tag))
           parsed == JSONparse(Utf8Decode(opened.plaintext))
       IN  IF call.op = "encrypt"
           THEN IF json.error # ""
                THEN /\ calls' = [calls EXCEPT ![c] = ToFinally(call, json.error, <<>>)]
                     /\ UNCHANGED frames
                ELSE /\ frames' = [frames EXCEPT
                           ![Frame(c)].payloadNonce = payloadNonce,
                           ![Frame(c)].payloadCt = sealed.ciphertext,
                           ![Frame(c)].payloadTag = sealed.tag]
                     /\ calls' = [calls EXCEPT ![c].pc = "wrap"]
           ELSE /\ calls' = [calls EXCEPT ![c] =
                      IF opened.error # ""
                      THEN ToFinally(call, Classify(opened.error), <<>>)
                      ELSE IF parsed.error # ""
                      THEN ToFinally(call, Classify(parsed.error), <<>>)
                      ELSE ToFinally(call, "ok", parsed.value)]
                /\ UNCHANGED frames
    /\ UNCHANGED notCallVars

\* encrypt wraps the DEK of its frame and assembles the record
CallWrap(c) ==
    /\ calls[c].pc = "wrap"
    /\ LET call == calls[c]
           frame == frames[Frame(c)]
           dekWrapNonce == RandomBytes(call.seed, 3, NONCE_BYTES)
           sealedDek == GcmEncrypt(BufferFromHex(call.masterKey), dekWrapNonce,
                                   frame.dek)
           record ==
               [id |-> RandomUUID(call.seed), partyId |-> call.partyId,
                createdAt |-> Now,
                payload_nonce |-> ToHexString(frame.payloadNonce),
                payload_ct |-> ToHexString(frame.payloadCt),
                payload_tag |-> ToHexString(frame.payloadTag),
                dek_wrap_nonce |-> ToHexString(dekWrapNonce),
                dek_wrapped |-> ToHexString(sealedDek.ciphertext),
                dek_wrap_tag |-> ToHexString(sealedDek.tag),
                alg |-> ALG, mk_version |-> MkVersionParameter(UndefinedValue)]
       IN  calls' = [calls EXCEPT ![c] = ToFinally(call, "ok", record)]
    /\ UNCHANGED <<frames, notCallVars>>

\* finally: the DEK of the frame is overwritten, and the call returns or throws
CallFinally(c) ==
    /\ calls[c].pc = "finally"
    /\ frames' = [frames EXCEPT ![Frame(c)].dek = ZeroFill(frames[Frame(c)].dek)]
    /\ calls' = [calls EXCEPT ![c].pc = "done"]
    /\ UNCHANGED notCallVars

CallNext ==
    \E c \in CallIds :
        CallStart(c) \/ CallPayload(c) \/ CallWrap(c) \/ CallFinally(c)

CallSpec == CallInit /\ [][CallNext]_vars

\* what a call made alone comes to
Alone(call) ==
    IF call.op = "encrypt"
    THEN LET e == encrypt(call.masterKey, call.partyId, call.payload,
                          UndefinedValue, call.seed)
         IN  [status |-> e.status, value |-> IF e.hasRecord THEN e.record ELSE <<>>]
    ELSE LET d == decrypt(call.masterKey, call.record)
         IN  [status |-> d.status, value |-> d.value]

\* C21: however the steps of calls in progress interleave, each call ends as
\* it would alone; a record encrypted for a party under the shared master key
\* decrypts to that party's payload.
C21_CallIndependence ==
    \A c \in CallIds :
        calls[c].pc = "done"
        => /\ calls[c].status = Alone(calls[c]).status
           /\ calls[c].value = Alone(calls[c]).value
           /\ (calls[c].op = "encrypt" /\ calls[c].status = "ok")
              => decrypt(calls[c].masterKey, calls[c].value).value = calls[c].payload
           /\ (calls[c].op = "decrypt" /\ calls[c].status = "ok"
               /\ calls[c].record = RecordAlpha) => calls[c].value = PayloadNumber
           /\ (calls[c].op = "decrypt" /\ calls[c].status = "ok"
               /\ calls[c].record = RecordBeta) => calls[c].value = PayloadText

\* an encrypt call for one party has returned while a decrypt call on another
\* party's record is still before its finally block, its DEK in its frame
C21_Witness ==
    \E c, d \in CallIds :
        /\ c # d
        /\ calls[c].pc = "done" /\ calls[c].status = "ok"
        /\ calls[d].pc = "finally" /\ calls[d].status = "ok"
        /\ calls[c].op = "encrypt" /\ calls[d].op = "decrypt"
        /\ calls[c].partyId = "party_B" /\ calls[d].record = RecordAlpha
        /\ IsZero(frames[Frame(c)].dek) /\ ~IsZero(frames[Frame(d)].dek)

=============================================================================
